---- MODULE Spec2Model ----
(***************************************************************************)
(* PatchDB: the mergeable state delta of a node (coins, spent outputs,     *)
(* contract states, receipts, group levels), with merge, purge and         *)
(* validateAgainstStable.  A patch is a record of finite maps; a map with  *)
(* keys K is a function whose DOMAIN is the set of keys present.           *)
(***************************************************************************)
EXTENDS Integers, FiniteSets, Sequences, TLC

\* ------------------------------------------------------------------ bounds
NumSlots == 3            \* patch objects alive at once
NumHashes == 1           \* UTXO transaction hashes
MaxIdx == 1              \* output indexes 0..MaxIdx
NumSpendTx == 2          \* hashes of spending transactions
NumCoinVals == 1         \* distinct Coins values
MaxGroup == 1            \* witness group ids 0..MaxGroup
NumAddrs == 1            \* contract addresses
NumData == 2             \* contract data buffers
NumReceiptTx == 1        \* tx hashes that own a receipt
NumReceipts == 2         \* distinct receipts
MaxSteps == 3            \* operations per run, all operations
MaxCoinSteps == 4        \* operations per run, coin operations
MaxContractSteps == 5    \* operations per run, contract and group operations
MaxVersion == 1          \* protocol versions 1..MaxVersion a peer can have
MaxPeerSteps == 3        \* calls on the PeerManager per run
MaxStableSteps == 7      \* operations per run, patches built from a stable patch

Slots == 1..NumSlots
Hashes == 1..NumHashes
Indexes == 0..MaxIdx
SpendTxs == 1..NumSpendTx
CoinVals == 1..NumCoinVals
Groups == 0..MaxGroup
Addrs == 1..NumAddrs
Datas == 1..NumData
ReceiptTxs == 1..NumReceiptTx
Receipts == 1..NumReceipts

\* ------------------------------------------------------------------ maps
\* JavaScript `undefined` (an unbound group id, a missing level)
Undefined == -1

EmptyMap == [x \in {} |-> 0]

\* Map.has
Has(m, k) == k \in DOMAIN m

\* Map.set
Put(m, k, v) == [x \in DOMAIN m \cup {k} |-> IF x = k THEN v ELSE m[x]]

\* Map.delete
Del(m, k) == [x \in DOMAIN m \ {k} |-> m[x]]

\* all maps from a subset of K to V
PartialMaps(K, V) == UNION {[D -> V] : D \in SUBSET K}

Max(a, b) == IF a > b THEN a ELSE b

\* ------------------------------------------------------------------ UTXO
\* A UTXO of one tx hash: the map from its live output indexes to Coins.
UTXOs == PartialMaps(Indexes, CoinVals)

\* new UTXO({txHash})
NewUTXO == EmptyMap

\* UTXO.getIndexes
GetIndexes(u) == DOMAIN u

\* UTXO.coinsAtIndex throws when the index is not live
CoinsAtIndexThrows(u, idx) == idx \notin DOMAIN u

\* UTXO.spendCoins(idx): throws when idx is not live, else removes it
UtxoSpendThrows(u, idx) == idx \notin DOMAIN u
UtxoSpend(u, idx) == Del(u, idx)

\* UTXO.addCoins(idx, coins): throws when idx is live, else inserts
UtxoAddThrows(u, idx) == idx \in DOMAIN u
UtxoAdd(u, idx, c) == Put(u, idx, c)

\* UTXO.equals: structural
UtxoEquals(u1, u2) == u1 = u2

\* ------------------------------------------------------------------ Contract
\* Contract: the witness group it belongs to and its data buffer
Contracts == [groupId : Groups, data : Datas]

\* Contract.encode, and new Contract(encoded, strAddr)
Encode(c) == <<c.groupId, c.data>>
Decode(e) == [groupId |-> e[1], data |-> e[2]]

\* ------------------------------------------------------------------ PatchDB
\* constructor(nGroupId), with setGroupId(nGroupId) inlined
NewPatchDB(nGroupId) ==
    [coins |-> EmptyMap,
     spent |-> EmptyMap,
     level |-> IF nGroupId = Undefined THEN EmptyMap ELSE Put(EmptyMap, nGroupId, 1),
     groupId |-> nGroupId,
     contracts |-> EmptyMap,
     receipts |-> EmptyMap]

\* getUtxo: present, and the UTXO
HasUtxo(P, h) == Has(P.coins, h)
GetUtxo(P, h) == P.coins[h]

\* _getSpentOutputs
GetSpentOutputs(P, h) == IF Has(P.spent, h) THEN P.spent[h] ELSE EmptyMap

\* _setSpentOutput
SetSpentOutput(P, h, idx, tx) ==
    [P EXCEPT !.spent = Put(P.spent, h, Put(GetSpentOutputs(P, h), idx, tx))]

\* faulty variant (the properties must detect it): the snapshot is used even when the patch holds a UTXO of the hash
SpendCopy_AlwaysSnapshot(P, h, utxo) == utxo

\* faulty variant (the properties must detect it): an index that is not live is spent without an error
SpendCoinsThrows_Never(P, h, utxo, idx) == FALSE

\* spendCoins: the UTXO it works on, whether it throws, the patch after
SpendCopy(P, h, utxo) == IF HasUtxo(P, h) THEN GetUtxo(P, h) ELSE utxo
SpendCoinsThrows(P, h, utxo, idx) == UtxoSpendThrows(SpendCopy(P, h, utxo), idx)
SpendCoins(P, h, utxo, idx, tx) ==
    SetSpentOutput(
        [P EXCEPT !.coins = Put(P.coins, h, UtxoSpend(SpendCopy(P, h, utxo), idx))],
        h, idx, tx)

\* createCoins
CreateCopy(P, h) == IF HasUtxo(P, h) THEN GetUtxo(P, h) ELSE NewUTXO
CreateCoinsThrows(P, h, idx) == UtxoAddThrows(CreateCopy(P, h), idx)
CreateCoins(P, h, idx, c) ==
    [P EXCEPT !.coins = Put(P.coins, h, UtxoAdd(CreateCopy(P, h), idx, c))]

\* setUtxo
SetUtxo(P, h, utxo) == [P EXCEPT !.coins = Put(P.coins, h, utxo)]

\* faulty variant (the properties must detect it): a bound patch is bound again without an error
SetGroupIdThrows_Never(P, nId) == FALSE

\* faulty variant (the properties must detect it): the level restarts at 1 instead of growing from the level the patch has
SetGroupId_FromZero(P, nId) ==
    IF nId = Undefined THEN P
    ELSE [P EXCEPT !.groupId = nId, !.level = Put(P.level, nId, 1)]

\* setGroupId
SetGroupIdThrows(P, nId) == nId # Undefined /\ P.groupId # Undefined
SetGroupId(P, nId) ==
    IF nId = Undefined THEN P
    ELSE [P EXCEPT !.groupId = nId,
                   !.level = Put(P.level, nId,
                                 (IF Has(P.level, nId) THEN P.level[nId] ELSE 0) + 1)]

\* getLevel(nGroupId) with an explicit group id
GetLevelThrows(P) == P.groupId = Undefined
GetLevel(P, g) == IF Has(P.level, g) THEN P.level[g] ELSE Undefined

\* setContract
SetContract(P, addr, c) ==
    IF Has(P.contracts, addr)
    THEN [P EXCEPT !.contracts[addr].data = c.data]
    ELSE [P EXCEPT !.contracts = Put(P.contracts, addr, c)]

\* setReceipt
SetReceipt(P, t, r) == [P EXCEPT !.receipts = Put(P.receipts, t, r)]

\* ------------------------------------------------------------------ merge
\* faulty variant (the properties must detect it): the level of this where it has one, instead of the maximum
MergeGroupLevels_ReceiverFirst(L, R) ==
    [g \in DOMAIN L.level \cup DOMAIN R.level |->
        IF Has(L.level, g) THEN L.level[g] ELSE R.level[g]]

\* merge, group levels: the per-group maximum over the union of the keys
LevelOrZero(P, g) == IF Has(P.level, g) THEN P.level[g] ELSE 0
MergeGroupLevels(L, R) ==
    [g \in DOMAIN L.level \cup DOMAIN R.level |->
        Max(LevelOrZero(L, g), LevelOrZero(R, g))]

\* merge, UTXOs: the hashes the loop visits
UnionHashes(L, R) == DOMAIN L.coins \cup DOMAIN R.coins

\* exactly one of the two patches holds a UTXO for h
OnlyOneHas(L, R, h) ==
    \/ HasUtxo(L, h) /\ ~HasUtxo(R, h)
    \/ ~HasUtxo(L, h) /\ HasUtxo(R, h)

\* one side only: the UTXO put in the result (cloned)
OneSideUtxo(L, R, h) == IF HasUtxo(L, h) THEN GetUtxo(L, h) ELSE GetUtxo(R, h)

\* one side only: the spent outputs stored in the result
OneSideSpent(L, R, h) ==
    IF Cardinality(DOMAIN GetSpentOutputs(L, h)) # 0
    THEN GetSpentOutputs(L, h)
    ELSE GetSpentOutputs(R, h)

\* faulty variant (the properties must detect it): every index of patch's UTXO, not only those this holds too
BothSidesUtxo_AllOfPatch(L, R, h) == GetUtxo(R, h)

\* both sides: the indexes createCoins is called for, with the coins of `patch`
CommonIndexes(L, R, h) ==
    {idx \in GetIndexes(GetUtxo(L, h)) : ~CoinsAtIndexThrows(GetUtxo(R, h), idx)}
BothSidesUtxo(L, R, h) == [idx \in CommonIndexes(L, R, h) |-> GetUtxo(R, h)[idx]]

\* both sides: the indexes spent in both patches, and the assertion on them
SpentInBoth(L, R, h) ==
    DOMAIN GetSpentOutputs(L, h) \cap DOMAIN GetSpentOutputs(R, h)
Conflict(L, R, h) ==
    \E idx \in SpentInBoth(L, R, h) :
        GetSpentOutputs(L, h)[idx] # GetSpentOutputs(R, h)[idx]

\* both sides: the spendings of this, then those of patch, stored in the result
BothSidesSpent(L, R, h) ==
    [idx \in DOMAIN GetSpentOutputs(L, h) \cup DOMAIN GetSpentOutputs(R, h) |->
        IF Has(GetSpentOutputs(R, h), idx)
        THEN GetSpentOutputs(R, h)[idx]
        ELSE GetSpentOutputs(L, h)[idx]]

\* the coins of the result: a hash both sides hold gets a UTXO only through
\* createCoins, that is when some index is common
MergedHasUtxo(L, R, h) ==
    IF OnlyOneHas(L, R, h) THEN TRUE ELSE CommonIndexes(L, R, h) # {}
MergedUtxo(L, R, h) ==
    IF OnlyOneHas(L, R, h) THEN OneSideUtxo(L, R, h) ELSE BothSidesUtxo(L, R, h)
MergeCoins(L, R) ==
    [h \in {x \in UnionHashes(L, R) : MergedHasUtxo(L, R, x)} |-> MergedUtxo(L, R, h)]

\* the spent outputs of the result: _setSpentOutput creates the entry of h on
\* its first call, so a hash with nothing to store gets none
MergedSpent(L, R, h) ==
    IF OnlyOneHas(L, R, h) THEN OneSideSpent(L, R, h) ELSE BothSidesSpent(L, R, h)
MergeSpent(L, R) ==
    [h \in {x \in UnionHashes(L, R) : DOMAIN MergedSpent(L, R, x) # {}} |->
        MergedSpent(L, R, h)]

\* the assertion of the UTXO loop fails for some hash
MergeCoinsThrows(L, R) ==
    \E h \in UnionHashes(L, R) : ~OnlyOneHas(L, R, h) /\ Conflict(L, R, h)

\* merge, contracts
ContractAddresses(L, R) == DOMAIN L.contracts \cup DOMAIN R.contracts
BothHaveContract(L, R, a) == Has(L.contracts, a) /\ Has(R.contracts, a)

\* faulty variant (the properties must detect it): the group ids of the patches are compared, not those of the contracts
GroupMismatch_OfPatches(L, R, a) ==
    /\ Has(L.contracts, a) /\ Has(R.contracts, a)
    /\ L.groupId # R.groupId

\* 'Contract belongs to different groups'
GroupMismatch(L, R, a) ==
    BothHaveContract(L, R, a) /\ L.contracts[a].groupId # R.contracts[a].groupId

\* '"groupId" not specified!': getLevel asserts that the patch is bound
LevelThrows(L, R, a) ==
    /\ BothHaveContract(L, R, a)
    /\ ~GroupMismatch(L, R, a)
    /\ (GetLevelThrows(L) \/ GetLevelThrows(R))

\* a > b of two levels, either of which may be undefined
GreaterLevel(a, b) == a # Undefined /\ b # Undefined /\ a > b

\* faulty variant (the properties must detect it): this wins on equal levels too
WinnerContract_TieToReceiver(L, R, a) ==
    IF Has(L.contracts, a) /\ Has(R.contracts, a)
    THEN IF GetLevel(L, L.contracts[a].groupId) # Undefined
            /\ GetLevel(R, R.contracts[a].groupId) # Undefined
            /\ GetLevel(L, L.contracts[a].groupId) >= GetLevel(R, R.contracts[a].groupId)
         THEN L.contracts[a]
         ELSE R.contracts[a]
    ELSE IF Has(L.contracts, a) THEN L.contracts[a] ELSE R.contracts[a]

WinnerContract(L, R, a) ==
    IF BothHaveContract(L, R, a)
    THEN IF GreaterLevel(GetLevel(L, L.contracts[a].groupId),
                         GetLevel(R, R.contracts[a].groupId))
         THEN L.contracts[a]
         ELSE R.contracts[a]
    ELSE IF Has(L.contracts, a) THEN L.contracts[a] ELSE R.contracts[a]

MergeContracts(L, R) ==
    [a \in ContractAddresses(L, R) |-> Decode(Encode(WinnerContract(L, R, a)))]

\* the errors the contract loop can end with (the order of the addresses is
\* that of the maps' keys, which the patch values do not fix)
MergeContractErrors(L, R) ==
    {"ContractGroupMismatch" : a \in {x \in ContractAddresses(L, R) : GroupMismatch(L, R, x)}}
    \cup {"GroupNotSet" : a \in {x \in ContractAddresses(L, R) : LevelThrows(L, R, x)}}

\* merge, receipts
ReceiptHashes(L, R) == DOMAIN L.receipts \cup DOMAIN R.receipts
ReceiptCollision(L, R, t) ==
    Has(L.receipts, t) /\ Has(R.receipts, t) /\ L.receipts[t] # R.receipts[t]
\* faulty variant (the properties must detect it): the receipts of patch are not copied
MergeReceipts_ReceiverOnly(L, R) == L.receipts

MergeReceipts(L, R) ==
    [t \in ReceiptHashes(L, R) |->
        IF Has(L.receipts, t) THEN L.receipts[t] ELSE R.receipts[t]]
MergeReceiptsThrows(L, R) == \E t \in ReceiptHashes(L, R) : ReceiptCollision(L, R, t)

\* the errors merge can throw: the UTXO loop runs first, then the contracts,
\* then the receipts
MergeErrors(L, R) ==
    IF MergeCoinsThrows(L, R) THEN {"DoubleSpend"}
    ELSE IF MergeContractErrors(L, R) # {} THEN MergeContractErrors(L, R)
    ELSE IF MergeReceiptsThrows(L, R) THEN {"ReceiptCollision"}
    ELSE {}
MergeThrows(L, R) == MergeErrors(L, R) # {}

\* the patch merge returns when nothing throws; this = L, patch = R
Merge(L, R) ==
    [coins |-> MergeCoins(L, R),
     spent |-> MergeSpent(L, R),
     level |-> MergeGroupLevels(L, R),
     groupId |-> Undefined,
     contracts |-> MergeContracts(L, R),
     receipts |-> MergeReceipts(L, R)]

\* ------------------------------------------------------------------ purge
\* _spendingTnxsEqual
SpendingTnxsEqual(thisMapSpent, patchMapSpent) ==
    /\ Cardinality(DOMAIN thisMapSpent) = Cardinality(DOMAIN patchMapSpent)
    /\ \A nTxOutput \in DOMAIN thisMapSpent :
          /\ Has(patchMapSpent, nTxOutput)
          /\ patchMapSpent[nTxOutput] = thisMapSpent[nTxOutput]

\* faulty variant (the properties must detect it): the spent outputs are not compared
PurgedHashes_IgnoresSpent(P, S) ==
    {h \in DOMAIN S.coins :
        HasUtxo(P, h) /\ UtxoEquals(GetUtxo(P, h), GetUtxo(S, h))}

\* purge, UTXOs: the hashes removed from this (P) given patch (S)
PurgedHashes(P, S) ==
    {h \in DOMAIN S.coins :
        /\ HasUtxo(P, h)
        /\ UtxoEquals(GetUtxo(P, h), GetUtxo(S, h))
        /\ SpendingTnxsEqual(GetSpentOutputs(P, h), GetSpentOutputs(S, h))}

\* faulty variant (the properties must detect it): a contract is removed whatever its data
PurgedContracts_AnyData(P, S) == {a \in DOMAIN S.contracts : Has(P.contracts, a)}

\* purge, contracts: the addresses removed
PurgedContracts(P, S) ==
    {a \in DOMAIN S.contracts :
        Has(P.contracts, a) /\ P.contracts[a].data = S.contracts[a].data}

\* purge, receipts: the hashes removed
PurgedReceipts(P, S) == {t \in DOMAIN S.receipts : Has(P.receipts, t)}

Purge(P, S) ==
    [P EXCEPT
        !.coins = [h \in DOMAIN P.coins \ PurgedHashes(P, S) |-> P.coins[h]],
        !.spent = [h \in DOMAIN P.spent \ PurgedHashes(P, S) |-> P.spent[h]],
        !.contracts = [a \in DOMAIN P.contracts \ PurgedContracts(P, S) |-> P.contracts[a]],
        !.receipts = [t \in DOMAIN P.receipts \ PurgedReceipts(P, S) |-> P.receipts[t]]]

\* ------------------------------------------------------------------ validateAgainstStable
\* faulty variant (the properties must detect it): a hash the stable patch has no UTXO for is not skipped
ValidateThrows_MissingFails(P, B) ==
    \E h \in DOMAIN P.coins :
        \/ ~HasUtxo(B, h)
        \/ \E idx \in DOMAIN GetSpentOutputs(P, h) : CoinsAtIndexThrows(GetUtxo(B, h), idx)

\* the assertion fails for some spent index of some hash of this.getCoins()
ValidateThrows(P, B) ==
    \E h \in DOMAIN P.coins :
        /\ HasUtxo(B, h)
        /\ \E idx \in DOMAIN GetSpentOutputs(P, h) : CoinsAtIndexThrows(GetUtxo(B, h), idx)

\* ------------------------------------------------------------------ state
VARIABLES
    patches,      \* the PatchDB objects, by slot
    sharedUtxos,  \* <<s, q, h>>: patches s and q hold one and the same UTXO
                  \* object for hash h
    last,         \* the last operation: its name, its slots, whether it returned,
                  \* what it threw, whether it changed a patch
    steps,        \* operations the run may still make
    allPeers,     \* PeerManager._allPeers: the address book, key -> peer
    added         \* the last call on the PeerManager and what it returned

vars == <<patches, sharedUtxos, last, steps, allPeers, added>>
patchVars == <<patches, sharedUtxos, last>>
peerVars == <<allPeers, added>>

NoOp == [op |-> "none", a |-> 0, b |-> 0, d |-> 0, ok |-> TRUE, errs |-> {}, changed |-> FALSE]
Op(name, a, b, d, ok, errs, changed) ==
    [op |-> name, a |-> a, b |-> b, d |-> d, ok |-> ok, errs |-> errs, changed |-> changed]

\* no call on the PeerManager yet
NoPeer ==
    [address |-> <<>>, port |-> 0, banned |-> FALSE, tempBannedAddress |-> FALSE,
     disconnected |-> TRUE, version |-> Undefined]
NoAdd == [op |-> "none", key |-> <<>>, peer |-> NoPeer, result |-> "none"]

\* a PeerManager as its constructor leaves it
NewPeerManager == allPeers = EmptyMap /\ added = NoAdd

\* every patch is as its constructor leaves it: the first two are made for
\* blocks of witness group 0, the others with no group id
Init ==
    /\ patches = [s \in Slots |-> IF s <= 2 THEN NewPatchDB(0) ELSE NewPatchDB(Undefined)]
    /\ sharedUtxos = {}
    /\ last = NoOp
    /\ steps = MaxSteps
    /\ NewPeerManager

\* An operation that throws, and validateAgainstStable, leave every patch as
\* it was: what can follow them can follow the state before them, so a run is
\* not continued past them.
Running == steps > 0 /\ last.ok /\ last.op # "validateAgainstStable"

\* the record of an operation on patch s alone: it threw before changing
\* anything, or left the patch as `after`
Threw(name, s) == Op(name, s, 0, 0, FALSE, {}, FALSE)
Returned(name, s, after) == Op(name, s, 0, 0, TRUE, {}, after # patches[s])

\* patches s and q hold the same UTXO object for h
Shares(s, q, h) == <<s, q, h>> \in sharedUtxos \/ <<q, s, h>> \in sharedUtxos

\* the patches after the UTXO object that patch s holds for h was written in
\* place and is now u: every patch that holds the same object sees u
WriteThrough(s, h, u) ==
    [q \in Slots |->
        IF q # s /\ Shares(s, q, h)
        THEN [patches[q] EXCEPT !.coins = Put(patches[q].coins, h, u)]
        ELSE patches[q]]

\* patch s has dropped or replaced its UTXO objects of the hashes H
Unshare(s, H) == {t \in sharedUtxos : ~((t[1] = s \/ t[2] = s) /\ t[3] \in H)}

\* faulty variant (the properties must detect it): the UTXO only one side holds is put in the result without clone()
MergeSharedUtxos_NoClone(l, r, d) ==
    {<<d, IF HasUtxo(patches[l], h) THEN l ELSE r, h>> :
        h \in {x \in UnionHashes(patches[l], patches[r]) :
                  /\ OnlyOneHas(patches[l], patches[r], x)
                  /\ d # (IF HasUtxo(patches[l], x) THEN l ELSE r)}}

\* merge: the UTXO objects the result d shares with this (l) or patch (r):
\* none, a UTXO of the result is a clone() or is built by createCoins
MergeSharedUtxos(l, r, d) == {}

DoSetGroupId(s, g) ==
    /\ Running
    /\ steps' = steps - 1
    /\ IF SetGroupIdThrows(patches[s], g)
       THEN /\ patches' = patches
            /\ last' = Threw("setGroupId", s)
       ELSE /\ patches' = [patches EXCEPT ![s] = SetGroupId(patches[s], g)]
            /\ last' = Returned("setGroupId", s, SetGroupId(patches[s], g))
    /\ UNCHANGED sharedUtxos
    /\ UNCHANGED peerVars

\* spendCoins writes to the patch's own UTXO object when it holds one, else
\* to a clone of the snapshot, which it installs
DoSpendCoins(s, h, utxo, idx, tx) ==
    /\ Running
    /\ steps' = steps - 1
    /\ IF SpendCoinsThrows(patches[s], h, utxo, idx)
       THEN /\ patches' = patches
            /\ last' = Threw("spendCoins", s)
       ELSE LET After == SpendCoins(patches[s], h, utxo, idx, tx)
            IN  /\ patches' = [(IF HasUtxo(patches[s], h)
                                THEN WriteThrough(s, h, GetUtxo(After, h))
                                ELSE patches) EXCEPT ![s] = After]
                /\ last' = Returned("spendCoins", s, After)
    /\ UNCHANGED sharedUtxos
    /\ UNCHANGED peerVars

\* createCoins writes to the patch's own UTXO object when it holds one, else
\* to a new UTXO, which it installs
DoCreateCoins(s, h, idx, c) ==
    /\ Running
    /\ steps' = steps - 1
    /\ IF CreateCoinsThrows(patches[s], h, idx)
       THEN /\ patches' = patches
            /\ last' = Threw("createCoins", s)
       ELSE LET After == CreateCoins(patches[s], h, idx, c)
            IN  /\ patches' = [(IF HasUtxo(patches[s], h)
                                THEN WriteThrough(s, h, GetUtxo(After, h))
                                ELSE patches) EXCEPT ![s] = After]
                /\ last' = Returned("createCoins", s, After)
    /\ UNCHANGED sharedUtxos
    /\ UNCHANGED peerVars

\* setUtxo installs a clone in place of the UTXO object the patch held
DoSetUtxo(s, h, utxo) ==
    /\ Running
    /\ steps' = steps - 1
    /\ patches' = [patches EXCEPT ![s] = SetUtxo(patches[s], h, utxo)]
    /\ sharedUtxos' = Unshare(s, {h})
    /\ last' = Returned("setUtxo", s, SetUtxo(patches[s], h, utxo))
    /\ UNCHANGED peerVars

DoSetContract(s, a, c) ==
    /\ Running
    /\ steps' = steps - 1
    /\ patches' = [patches EXCEPT ![s] = SetContract(patches[s], a, c)]
    /\ last' = Returned("setContract", s, SetContract(patches[s], a, c))
    /\ UNCHANGED sharedUtxos
    /\ UNCHANGED peerVars

DoSetReceipt(s, t, r) ==
    /\ Running
    /\ steps' = steps - 1
    /\ patches' = [patches EXCEPT ![s] = SetReceipt(patches[s], t, r)]
    /\ last' = Returned("setReceipt", s, SetReceipt(patches[s], t, r))
    /\ UNCHANGED sharedUtxos
    /\ UNCHANGED peerVars

\* d = l.merge(r): the new patch is kept in slot d, whose former patch is
\* dropped; nothing is kept when merge throws
DoMerge(l, r, d) ==
    /\ Running
    /\ steps' = steps - 1
    /\ IF MergeThrows(patches[l], patches[r])
       THEN /\ patches' = patches
            /\ UNCHANGED sharedUtxos
            /\ last' = Op("merge", l, r, 0, FALSE, MergeErrors(patches[l], patches[r]), FALSE)
       ELSE LET M == Merge(patches[l], patches[r])
            IN  /\ patches' = [patches EXCEPT ![d] = M]
                /\ sharedUtxos' = Unshare(d, Hashes) \cup MergeSharedUtxos(l, r, d)
                /\ last' = Op("merge", l, r, d, TRUE, {}, M # patches[d])
    /\ UNCHANGED peerVars

\* p.purge(s)
DoPurge(p, s) ==
    /\ Running
    /\ steps' = steps - 1
    /\ LET After == Purge(patches[p], patches[s])
       IN  /\ patches' = [patches EXCEPT ![p] = After]
           /\ sharedUtxos' = Unshare(p, PurgedHashes(patches[p], patches[s]))
           /\ last' = Op("purge", p, s, 0, TRUE, {}, After # patches[p])
    /\ UNCHANGED peerVars

\* p.validateAgainstStable(b)
DoValidateAgainstStable(p, b) ==
    /\ Running
    /\ steps' = steps - 1
    /\ UNCHANGED patches
    /\ UNCHANGED sharedUtxos
    /\ last' = Op("validateAgainstStable", p, b, 0,
                  ~ValidateThrows(patches[p], patches[b]), {}, FALSE)
    /\ UNCHANGED peerVars

GroupOps == \E s \in Slots, g \in Groups : DoSetGroupId(s, g)
SpendOps ==
    \E s \in Slots, h \in Hashes, utxo \in UTXOs, idx \in Indexes, tx \in SpendTxs :
        DoSpendCoins(s, h, utxo, idx, tx)
CreateOps ==
    \E s \in Slots, h \in Hashes, idx \in Indexes, c \in CoinVals :
        DoCreateCoins(s, h, idx, c)
SetUtxoOps == \E s \in Slots, h \in Hashes, utxo \in UTXOs : DoSetUtxo(s, h, utxo)
ContractOps == \E s \in Slots, a \in Addrs, c \in Contracts : DoSetContract(s, a, c)
ReceiptOps == \E s \in Slots, t \in ReceiptTxs, r \in Receipts : DoSetReceipt(s, t, r)
MergeOps == \E l \in Slots, r \in Slots, d \in Slots : DoMerge(l, r, d)
PurgeOps == \E p \in Slots, s \in Slots : DoPurge(p, s)
ValidateOps == \E p \in Slots, b \in Slots : DoValidateAgainstStable(p, b)

\* every operation, on patches constructed with any group id
Next ==
    \/ GroupOps
    \/ SpendOps
    \/ CreateOps
    \/ SetUtxoOps
    \/ ContractOps
    \/ ReceiptOps
    \/ MergeOps
    \/ PurgeOps
    \/ ValidateOps

Spec == Init /\ [][Next]_vars

\* the operations on coins, on patches constructed with no group id
InitCoins ==
    /\ patches = [s \in Slots |-> NewPatchDB(Undefined)]
    /\ sharedUtxos = {}
    /\ last = NoOp
    /\ steps = MaxCoinSteps
    /\ NewPeerManager

NextCoins ==
    \/ SpendOps
    \/ CreateOps
    \/ SetUtxoOps
    \/ MergeOps
    \/ PurgeOps
    \/ ValidateOps

SpecCoins == InitCoins /\ [][NextCoins]_vars

\* the operations on groups and contracts
InitContracts ==
    /\ patches = [s \in Slots |-> IF s <= 2 THEN NewPatchDB(0) ELSE NewPatchDB(Undefined)]
    /\ sharedUtxos = {}
    /\ last = NoOp
    /\ steps = MaxContractSteps
    /\ NewPeerManager

NextContracts ==
    \/ GroupOps
    \/ ContractOps
    \/ MergeOps
    \/ PurgeOps

SpecContracts == InitContracts /\ [][NextContracts]_vars

\* the patches built from reads of a stable patch: the first patch is the
\* stable one (a patch of the UTXOs on disk, installed by setUtxo), the others
\* start empty, spend outputs of the stable UTXOs and are merged
Stable == 1
Derived == Slots \ {Stable}
StablePatches ==
    {[NewPatchDB(Undefined) EXCEPT !.coins = m] : m \in PartialMaps(Hashes, UTXOs)}

InitStable ==
    /\ patches \in {[s \in Slots |-> IF s = Stable THEN B ELSE NewPatchDB(Undefined)] :
                        B \in StablePatches}
    /\ sharedUtxos = {}
    /\ last = NoOp
    /\ steps = MaxStableSteps
    /\ NewPeerManager

SpendStableOps ==
    \E s \in Derived, h \in Hashes, idx \in Indexes, tx \in SpendTxs :
        /\ HasUtxo(patches[Stable], h)
        /\ DoSpendCoins(s, h, GetUtxo(patches[Stable], h), idx, tx)
MergeDerivedOps == \E l \in Derived, r \in Derived, d \in Derived : DoMerge(l, r, d)
ValidateStableOps == \E p \in Derived : DoValidateAgainstStable(p, Stable)

NextStable ==
    \/ SpendStableOps
    \/ MergeDerivedOps
    \/ ValidateStableOps

SpecStable == InitStable /\ [][NextStable]_vars

\* ------------------------------------------------------------------ PeerManager
\* addresses and ports, as the strings and numbers _createKey joins: the
\* address "1" with port 23 and the address "12" with port 3 get one key
PeerAddresses == {<<1>>, <<1, 2>>}
PeerPorts == {3, 23}
Versions == {Undefined} \cup (1..MaxVersion)

\* a Peer, as far as addPeer reads it
Peers ==
    [address : PeerAddresses, port : PeerPorts, banned : BOOLEAN,
     tempBannedAddress : BOOLEAN, disconnected : BOOLEAN, version : Versions]

\* Number.toString of a port, as its decimal digits
RECURSIVE PortToString(_)
PortToString(port) ==
    IF port < 10 THEN <<port>> ELSE PortToString(port \div 10) \o <<port % 10>>

\* _createKey
CreateKey(address, port) == address \o PortToString(port)

\* a version used as a condition: undefined and 0 are falsy
Truthy(version) == version # Undefined /\ version # 0

\* faulty variant (the properties must detect it): a disconnected peer is replaced even when its version is known
AddPeerResult_IgnoresVersion(book, peer) ==
    IF ~Has(book, CreateKey(peer.address, peer.port)) THEN "peer"
    ELSE IF book[CreateKey(peer.address, peer.port)].banned THEN "REJECT_BANNED"
    ELSE IF ~book[CreateKey(peer.address, peer.port)].disconnected /\ ~peer.disconnected
         THEN "REJECT_DUPLICATE"
    ELSE IF book[CreateKey(peer.address, peer.port)].tempBannedAddress
         THEN "REJECT_BANNEDADDRESS"
    ELSE IF ~book[CreateKey(peer.address, peer.port)].disconnected THEN "existingPeer"
    ELSE "peer"

\* addPeer: what it returns (a rejection code, the stored peer, or the peer
\* given, which it then stores)
AddPeerResult(book, peer) ==
    LET key == CreateKey(peer.address, peer.port)
    IN  IF ~Has(book, key) THEN "peer"
        ELSE LET existingPeer == book[key]
             IN  IF existingPeer.banned THEN "REJECT_BANNED"
                 ELSE IF ~existingPeer.disconnected /\ ~peer.disconnected
                      THEN "REJECT_DUPLICATE"
                 ELSE IF existingPeer.tempBannedAddress THEN "REJECT_BANNEDADDRESS"
                 ELSE IF Truthy(existingPeer.version) \/ ~existingPeer.disconnected
                      THEN "existingPeer"
                 ELSE "peer"

\* addPeer: the address book after the call
AddPeer(book, peer) ==
    IF AddPeerResult(book, peer) = "peer"
    THEN Put(book, CreateKey(peer.address, peer.port), peer)
    ELSE book

DoAddPeer(peer) ==
    /\ steps > 0
    /\ steps' = steps - 1
    /\ allPeers' = AddPeer(allPeers, peer)
    /\ added' = [op |-> "addPeer", key |-> CreateKey(peer.address, peer.port),
                 peer |-> peer, result |-> AddPeerResult(allPeers, peer)]
    /\ UNCHANGED patchVars

\* removePeer: throws a TypeError when no peer is stored under the key
DoRemovePeer(address, port) ==
    /\ steps > 0
    /\ steps' = steps - 1
    /\ allPeers' = Del(allPeers, CreateKey(address, port))
    /\ added' = [op |-> "removePeer", key |-> CreateKey(address, port), peer |-> NoPeer,
                 result |-> IF Has(allPeers, CreateKey(address, port))
                            THEN "removed" ELSE "TypeError"]
    /\ UNCHANGED patchVars

AddPeerOps == \E peer \in Peers : DoAddPeer(peer)
RemovePeerOps == \E address \in PeerAddresses, port \in PeerPorts : DoRemovePeer(address, port)

InitPeers ==
    /\ patches = [s \in Slots |-> NewPatchDB(Undefined)]
    /\ sharedUtxos = {}
    /\ last = NoOp
    /\ steps = MaxPeerSteps
    /\ NewPeerManager

NextPeers ==
    \/ AddPeerOps
    \/ RemovePeerOps

SpecPeers == InitPeers /\ [][NextPeers]_vars

\* ------------------------------------------------------------------ properties
\* what a patch holds, read off its maps
Live(P, h, i) == h \in DOMAIN P.coins /\ i \in DOMAIN P.coins[h]
IsSpent(P, h, i) == h \in DOMAIN P.spent /\ i \in DOMAIN P.spent[h]
SpentBy(P, h, i, tx) == IsSpent(P, h, i) /\ P.spent[h][i] = tx
LevelOf(P, g) == IF g \in DOMAIN P.level THEN P.level[g] ELSE 0
FiveMapsEqual(M1, M2) ==
    /\ M1.coins = M2.coins
    /\ M1.spent = M2.spent
    /\ M1.contracts = M2.contracts
    /\ M1.receipts = M2.receipts
    /\ M1.level = M2.level

\* a transaction hash fixes its outputs: two patches never disagree on the
\* coins of an output both hold
SameOutputs(L, R) ==
    \A h \in Hashes, i \in Indexes :
        Live(L, h, i) /\ Live(R, h, i) => L.coins[h][i] = R.coins[h][i]

\* no contract held by both patches has equal group levels on the two sides
NoLevelTie(L, R) ==
    \A a \in DOMAIN L.contracts \cap DOMAIN R.contracts :
        LevelOf(L, L.contracts[a].groupId) # LevelOf(R, R.contracts[a].groupId)

\* the last operation was a merge that returned a patch kept beside its inputs
MergedInto(l, r, d) ==
    /\ last.op = "merge" /\ last.ok
    /\ last.a = l /\ last.b = r /\ last.d = d
    /\ d # l /\ d # r

\* C1 (spend-closure): for reachable patches L and R, merge(L, R) throws the
\* double-spend error exactly when some output is recorded as spent by both,
\* by different transactions; with no such output it returns a patch.
C1_SpendClosure ==
    \A l \in Slots, r \in Slots :
        LET L == patches[l]
            R == patches[r]
            conflict == \E h \in Hashes, i \in Indexes :
                            IsSpent(L, h, i) /\ IsSpent(R, h, i)
                            /\ L.spent[h][i] # R.spent[h][i]
        IN  /\ conflict => MergeErrors(L, R) = {"DoubleSpend"}
            /\ ~conflict => "DoubleSpend" \notin MergeErrors(L, R)

\* C2 (index-loss rule): when L and R both hold a UTXO for h and merge(L, R)
\* returns M, index i is live in M's UTXO of h exactly when it is live in L's
\* and in R's.
C2_IndexLoss ==
    \A l \in Slots, r \in Slots :
        LET L == patches[l]
            R == patches[r]
        IN  ~MergeThrows(L, R) =>
                \A h \in DOMAIN L.coins \cap DOMAIN R.coins, i \in Indexes :
                    Live(Merge(L, R), h, i) <=> (Live(L, h, i) /\ Live(R, h, i))

\* C2 witness: a merge has returned a patch that kept an index live on both
\* sides and lost one that was live on one side only.
C2_Witness ==
    \E l \in Slots, r \in Slots, d \in Slots, h \in Hashes, i \in Indexes, j \in Indexes :
        /\ MergedInto(l, r, d)
        /\ Live(patches[l], h, i) /\ Live(patches[r], h, i) /\ Live(patches[d], h, i)
        /\ Live(patches[l], h, j) /\ ~Live(patches[r], h, j) /\ HasUtxo(patches[r], h)
        /\ ~Live(patches[d], h, j)

\* C3 (union of the spent outputs): when merge(L, R) returns M, an output is
\* recorded as spent in M exactly when it is in L or in R, with the same
\* spending transaction.
C3_SpentUnion ==
    \A l \in Slots, r \in Slots :
        LET L == patches[l]
            R == patches[r]
            M == Merge(L, R)
        IN  ~MergeThrows(L, R) =>
                \A h \in Hashes, i \in Indexes :
                    /\ IsSpent(M, h, i) <=> (IsSpent(L, h, i) \/ IsSpent(R, h, i))
                    /\ IsSpent(L, h, i) => SpentBy(M, h, i, L.spent[h][i])
                    /\ IsSpent(R, h, i) => SpentBy(M, h, i, R.spent[h][i])

\* C4 (commutativity): for reachable L and R with no contract-level tie (and
\* agreeing on the coins of the outputs both hold), merge(L, R) and merge(R, L)
\* both throw, or both return patches equal in all five maps.
C4_Commutative ==
    \A l \in Slots, r \in Slots :
        LET L == patches[l]
            R == patches[r]
        IN  (NoLevelTie(L, R) /\ SameOutputs(L, R)) =>
                /\ MergeThrows(L, R) <=> MergeThrows(R, L)
                /\ ~MergeThrows(L, R) => FiveMapsEqual(Merge(L, R), Merge(R, L))

\* C5 (associativity): for reachable A, B and C with no contract-level tie,
\* merge(merge(A, B), C) and merge(A, merge(B, C)) both throw, or both return
\* patches equal in all five maps.
LeftThrows(A, B, C) == MergeThrows(A, B) \/ MergeThrows(Merge(A, B), C)
RightThrows(A, B, C) == MergeThrows(B, C) \/ MergeThrows(A, Merge(B, C))
NoTieAmong(A, B, C) ==
    /\ NoLevelTie(A, B) /\ NoLevelTie(B, C)
    /\ ~MergeThrows(A, B) => NoLevelTie(Merge(A, B), C)
    /\ ~MergeThrows(B, C) => NoLevelTie(A, Merge(B, C))
SameOutputs3(A, B, C) == SameOutputs(A, B) /\ SameOutputs(B, C) /\ SameOutputs(A, C)
C5_Associative ==
    \A a \in Slots, b \in Slots, c \in Slots :
        LET A == patches[a]
            B == patches[b]
            C == patches[c]
        IN  (NoTieAmong(A, B, C) /\ SameOutputs3(A, B, C)) =>
                /\ LeftThrows(A, B, C) <=> RightThrows(A, B, C)
                /\ (~LeftThrows(A, B, C) /\ ~RightThrows(A, B, C)) =>
                       FiveMapsEqual(Merge(Merge(A, B), C), Merge(A, Merge(B, C)))

\* C6 (identity): for every reachable L, merge(L, new PatchDB()) returns a
\* patch equal to L in all five maps.
C6_Identity ==
    \A l \in Slots :
        /\ ~MergeThrows(patches[l], NewPatchDB(Undefined))
        /\ FiveMapsEqual(Merge(patches[l], NewPatchDB(Undefined)), patches[l])

\* C7 as claimed (contract winner, ties to the receiver): when L and R hold a
\* contract at the same address with the same group id g and merge(L, R)
\* returns M, M holds a copy of the contract of the side with the greater
\* level for g, and of L when the levels are equal.
C7_TieToReceiver ==
    \A l \in Slots, r \in Slots :
        LET L == patches[l]
            R == patches[r]
            M == Merge(L, R)
        IN  ~MergeThrows(L, R) =>
                \A a \in DOMAIN L.contracts \cap DOMAIN R.contracts :
                    LET g == L.contracts[a].groupId
                    IN  L.contracts[a].groupId = R.contracts[a].groupId =>
                            /\ LevelOf(L, g) > LevelOf(R, g) => M.contracts[a] = L.contracts[a]
                            /\ LevelOf(R, g) > LevelOf(L, g) => M.contracts[a] = R.contracts[a]
                            /\ LevelOf(L, g) = LevelOf(R, g) => M.contracts[a] = L.contracts[a]

\* C7 as amended (contract winner, ties to the argument): when L and R hold a
\* contract at the same address with the same group id g and merge(L, R)
\* returns M, M holds a copy of L's contract if both patches have a level for
\* g and L's is strictly greater, and a copy of R's contract otherwise.
C7_TieToArgument ==
    \A l \in Slots, r \in Slots :
        LET L == patches[l]
            R == patches[r]
            M == Merge(L, R)
        IN  ~MergeThrows(L, R) =>
                \A a \in DOMAIN L.contracts \cap DOMAIN R.contracts :
                    LET g == L.contracts[a].groupId
                    IN  L.contracts[a].groupId = R.contracts[a].groupId =>
                            IF g \in DOMAIN L.level /\ g \in DOMAIN R.level
                               /\ L.level[g] > R.level[g]
                            THEN M.contracts[a] = L.contracts[a]
                            ELSE M.contracts[a] = R.contracts[a]

\* C7 witness: a merge has installed the contract of the receiver, whose level
\* for the contract's group is the greater, over a different one of the argument.
C7_Witness ==
    \E l \in Slots, r \in Slots, d \in Slots, a \in Addrs :
        /\ MergedInto(l, r, d)
        /\ a \in DOMAIN patches[l].contracts /\ a \in DOMAIN patches[r].contracts
        /\ patches[l].contracts[a].groupId = patches[r].contracts[a].groupId
        /\ patches[l].contracts[a].data # patches[r].contracts[a].data
        /\ LevelOf(patches[l], patches[l].contracts[a].groupId)
               > LevelOf(patches[r], patches[r].contracts[a].groupId)
        /\ patches[d].contracts[a] = patches[l].contracts[a]

\* C8 (group levels of a merge): when merge(L, R) returns M, M is bound to no
\* group, M has a level exactly for the groups L or R has one for, and that
\* level is the greater of L's and R's (a missing level counting as 0).
C8_GroupLevels ==
    \A l \in Slots, r \in Slots :
        LET L == patches[l]
            R == patches[r]
            M == Merge(L, R)
        IN  ~MergeThrows(L, R) =>
                /\ M.groupId = Undefined
                /\ DOMAIN M.level = DOMAIN L.level \cup DOMAIN R.level
                /\ \A g \in DOMAIN M.level :
                       /\ M.level[g] >= LevelOf(L, g)
                       /\ M.level[g] >= LevelOf(R, g)
                       /\ M.level[g] \in {LevelOf(L, g), LevelOf(R, g)}

\* C8 witness: a merge of a bound patch has returned an unbound patch whose
\* level for some group is that of the one side, greater than the other's,
\* and which has a level for a group only one side knows.
C8_Witness ==
    \E l \in Slots, r \in Slots, d \in Slots, g \in Groups, g2 \in Groups :
        /\ MergedInto(l, r, d)
        /\ patches[l].groupId # Undefined
        /\ patches[d].groupId = Undefined
        /\ g \in DOMAIN patches[l].level /\ g \in DOMAIN patches[r].level
        /\ patches[l].level[g] > patches[r].level[g]
        /\ patches[d].level[g] = patches[l].level[g]
        /\ g2 \notin DOMAIN patches[l].level /\ g2 \in DOMAIN patches[r].level
        /\ g2 \in DOMAIN patches[d].level

\* C9 (purge law): P.purge(S) removes from P's coins and spent outputs every
\* hash of S's coins for which P's UTXO equals S's and P's spent outputs equal
\* S's (same indexes, same spending transactions), and leaves the UTXO and the
\* spent outputs of every other hash as they were.
SpentOf(P, h) == IF h \in DOMAIN P.spent THEN P.spent[h] ELSE EmptyMap
SameEntry(m1, m2, k) ==
    /\ k \in DOMAIN m1 <=> k \in DOMAIN m2
    /\ k \in DOMAIN m1 => m1[k] = m2[k]
Unchanged(P, S, h) ==
    /\ h \in DOMAIN S.coins /\ h \in DOMAIN P.coins
    /\ P.coins[h] = S.coins[h]
    /\ DOMAIN SpentOf(P, h) = DOMAIN SpentOf(S, h)
    /\ \A i \in DOMAIN SpentOf(P, h) : SpentOf(P, h)[i] = SpentOf(S, h)[i]
PurgeLaw(P, S, After) ==
    \A h \in Hashes :
        IF Unchanged(P, S, h)
        THEN h \notin DOMAIN After.coins /\ h \notin DOMAIN After.spent
        ELSE SameEntry(After.coins, P.coins, h) /\ SameEntry(After.spent, P.spent, h)
C9_PurgeLaw ==
    \A p \in Slots, s \in Slots :
        PurgeLaw(patches[p], patches[s], Purge(patches[p], patches[s]))

\* C9 witness: a purge has removed from P a hash that S still holds with a
\* UTXO and recorded spendings.
C9_Witness ==
    \E p \in Slots, s \in Slots, h \in Hashes :
        /\ last.op = "purge" /\ last.a = p /\ last.b = s /\ last.changed
        /\ p # s
        /\ h \in DOMAIN patches[s].coins /\ h \in DOMAIN patches[s].spent
        /\ h \notin DOMAIN patches[p].coins /\ h \notin DOMAIN patches[p].spent

\* C10 (validateAgainstStable): P.validateAgainstStable(B) throws exactly when
\* some hash of P's coins has a UTXO in B and an index in P's spent outputs
\* that is not live in B's UTXO; it changes no patch.
StaleSpend(P, B) ==
    \E h \in Hashes, i \in Indexes :
        /\ h \in DOMAIN P.coins /\ h \in DOMAIN B.coins
        /\ IsSpent(P, h, i)
        /\ ~Live(B, h, i)
C10_Validate ==
    [][last'.op = "validateAgainstStable" =>
          /\ patches' = patches
          /\ last'.ok <=> ~StaleSpend(patches[last'.a], patches[last'.b])]_vars

\* C10 witness: a validation against another patch has thrown on a spent
\* index that the stable UTXO lacks, while another spent index is live there.
C10_Witness ==
    \E p \in Slots, b \in Slots, h \in Hashes, i \in Indexes, j \in Indexes :
        /\ last.op = "validateAgainstStable" /\ last.a = p /\ last.b = b
        /\ ~last.ok
        /\ p # b
        /\ IsSpent(patches[p], h, i) /\ ~Live(patches[b], h, i)
        /\ IsSpent(patches[p], h, j) /\ Live(patches[b], h, j)

\* C11 (built from the stable patch): a patch built by successful spendCoins
\* calls whose snapshot is the stable patch's UTXO of the hash, and by merges
\* of such patches, passes validateAgainstStable against the stable patch.
C11_BuiltFromStable ==
    /\ \A p \in Derived : ~ValidateThrows(patches[p], patches[Stable])
    /\ last.op = "validateAgainstStable" => last.ok

\* C11 witness: validateAgainstStable has returned for a patch that holds a
\* UTXO of a stable hash with a live output and a spent one, beside another
\* patch that spent the other output of the same stable UTXO.
C11_Witness ==
    \E p \in Derived, q \in Derived, h \in Hashes, i \in Indexes, j \in Indexes :
        /\ last.op = "validateAgainstStable" /\ last.ok
        /\ last.a = p /\ last.b = Stable
        /\ Live(patches[Stable], h, i) /\ Live(patches[Stable], h, j)
        /\ IsSpent(patches[p], h, i) /\ Live(patches[p], h, j)
        /\ IsSpent(patches[q], h, j) /\ ~IsSpent(patches[q], h, i)

\* C12 (spent outputs are not live): in every patch reachable by spendCoins,
\* createCoins, setUtxo, merge and purge, an output recorded as spent is not
\* live in the patch's UTXO of its hash, or the patch holds no such UTXO.
C12_SpentNotLive ==
    \A s \in Slots, h \in Hashes, i \in Indexes :
        IsSpent(patches[s], h, i) => ~Live(patches[s], h, i)

\* the step keeps the object in slot s (a merge stores a new patch in its slot)
SamePatch(s) == ~(last'.op = "merge" /\ last'.ok /\ last'.d = s)

\* C13 (an output is spent once in a patch): while a patch records (h, i) as
\* spent by s, every spendCoins of (h, i) on it fails and no operation on it
\* changes the recorded spending transaction; a spendCoins that fails leaves
\* the coins and the spent outputs as they were.
C13_SpentOnce ==
    [][/\ \A s \in Slots, h \in Hashes, i \in Indexes :
              (IsSpent(patches[s], h, i) /\ SamePatch(s)) =>
                  /\ IsSpent(patches'[s], h, i) =>
                         patches'[s].spent[h][i] = patches[s].spent[h][i]
                  /\ \A utxo \in UTXOs, tx \in SpendTxs :
                         DoSpendCoins(s, h, utxo, i, tx) => ~last'.ok
       /\ (last'.op = "spendCoins" /\ ~last'.ok) => patches' = patches]_vars

\* C14 (a group id is bound once): setGroupId(g) on a patch with no group id
\* binds it to g and raises its level for g by exactly 1, from the level it
\* has or from 0, leaving the other levels alone; on a bound patch it fails
\* and changes neither the group id nor any level; a bound patch has a level
\* of at least 1 for its group.
BoundLevels ==
    \A s \in Slots :
        patches[s].groupId # Undefined =>
            /\ patches[s].groupId \in DOMAIN patches[s].level
            /\ patches[s].level[patches[s].groupId] >= 1
BindsOnce ==
    last'.op = "setGroupId" =>
        LET P == patches[last'.a]
            Q == patches'[last'.a]
        IN  IF P.groupId = Undefined
            THEN /\ last'.ok
                 /\ Q.groupId \in Groups
                 /\ DOMAIN Q.level = DOMAIN P.level \cup {Q.groupId}
                 /\ Q.level[Q.groupId] = LevelOf(P, Q.groupId) + 1
                 /\ \A g \in DOMAIN P.level \ {Q.groupId} : Q.level[g] = P.level[g]
            ELSE /\ ~last'.ok
                 /\ patches' = patches
C14_BindOnce == []BoundLevels /\ [][BindsOnce]_vars

\* C14 witness: setGroupId has failed on a patch that was bound after a merge
\* gave it a level, so that its level for its group is 2 or more.
C14_Witness ==
    \E s \in Slots :
        /\ last.op = "setGroupId" /\ ~last.ok /\ last.a = s
        /\ patches[s].groupId # Undefined
        /\ patches[s].level[patches[s].groupId] >= 2

\* C15 (getLevel with an explicit group id): getLevel(g) returns the level
\* for g on any patch, bound or not, so a merge of two patches that hold a
\* contract of the same group at the same address does not fail with the
\* 'groupId not specified' error, whether or not they are bound.
C15_ExplicitLevel ==
    \A l \in Slots, r \in Slots :
        LET L == patches[l]
            R == patches[r]
        IN  (\E a \in DOMAIN L.contracts \cap DOMAIN R.contracts :
                 L.contracts[a].groupId = R.contracts[a].groupId)
                => "GroupNotSet" \notin MergeErrors(L, R)

\* C16 (receipts in merge): if L and R hold receipts for a hash that are not
\* equal, merge(L, R) throws, and throws the tx collision error when its coin
\* and contract steps pass; when merge returns M, M holds a receipt exactly
\* for the hashes L or R holds one for, and it is the receipt of a side that
\* holds it.
C16_Receipts ==
    \A l \in Slots, r \in Slots :
        LET L == patches[l]
            R == patches[r]
            M == Merge(L, R)
            collision == \E t \in DOMAIN L.receipts \cap DOMAIN R.receipts :
                             L.receipts[t] # R.receipts[t]
        IN  /\ collision =>
                   /\ MergeThrows(L, R)
                   /\ (~MergeCoinsThrows(L, R) /\ MergeContractErrors(L, R) = {})
                          => MergeErrors(L, R) = {"ReceiptCollision"}
            /\ ~collision => "ReceiptCollision" \notin MergeErrors(L, R)
            /\ ~MergeThrows(L, R) =>
                   /\ DOMAIN M.receipts = DOMAIN L.receipts \cup DOMAIN R.receipts
                   /\ \A t \in DOMAIN L.receipts : M.receipts[t] = L.receipts[t]
                   /\ \A t \in DOMAIN R.receipts : M.receipts[t] = R.receipts[t]

\* C16 witness: a merge has thrown the tx collision error on two patches
\* that hold different receipts for one hash.
C16_Witness ==
    \E l \in Slots, r \in Slots, t \in ReceiptTxs :
        /\ last.op = "merge" /\ ~last.ok /\ last.a = l /\ last.b = r
        /\ last.errs = {"ReceiptCollision"}
        /\ t \in DOMAIN patches[l].receipts /\ t \in DOMAIN patches[r].receipts
        /\ patches[l].receipts[t] # patches[r].receipts[t]

\* C17 (contracts of different groups): if L and R hold contracts at one
\* address with different group ids, merge(L, R) throws and returns no patch,
\* whatever the group levels and bound groups of L and R; the error is the
\* different-groups one when the coin step passes.
C17_GroupMismatch ==
    \A l \in Slots, r \in Slots :
        LET L == patches[l]
            R == patches[r]
        IN  (\E a \in DOMAIN L.contracts \cap DOMAIN R.contracts :
                 L.contracts[a].groupId # R.contracts[a].groupId)
                => /\ MergeThrows(L, R)
                   /\ ~MergeCoinsThrows(L, R) =>
                          "ContractGroupMismatch" \in MergeErrors(L, R)

\* C17 witness: a merge of a patch with the greater level for its contract's
\* group has thrown the different-groups error.
C17_Witness ==
    \E l \in Slots, r \in Slots, a \in Addrs :
        /\ last.op = "merge" /\ ~last.ok /\ last.a = l /\ last.b = r
        /\ "ContractGroupMismatch" \in last.errs
        /\ a \in DOMAIN patches[l].contracts /\ a \in DOMAIN patches[r].contracts
        /\ patches[l].contracts[a].groupId # patches[r].contracts[a].groupId
        /\ LevelOf(patches[l], patches[l].contracts[a].groupId)
               > LevelOf(patches[r], patches[l].contracts[a].groupId)

\* C18 (binding a merge result): when M = merge(L, R) has just been stored
\* beside L and R, M.setGroupId(g) returns and leaves M's level for g at
\* max(L's level or 0, R's level or 0) + 1, above both L's and R's.
C18_BindAfterMerge ==
    [][\A l \in Slots, r \in Slots, d \in Slots :
           (MergedInto(l, r, d) /\ last'.op = "setGroupId" /\ last'.a = d) =>
               LET M == patches'[d]
                   g == M.groupId
               IN  /\ last'.ok
                   /\ g \in Groups
                   /\ M.level[g] = Max(LevelOf(patches[l], g), LevelOf(patches[r], g)) + 1
                   /\ M.level[g] > LevelOf(patches[l], g)
                   /\ M.level[g] > LevelOf(patches[r], g)]_vars

\* C18 witness: setGroupId has returned on a patch whose level for its group
\* is now 3, which only a chain of two merge-then-bind steps gives.
C18_Witness ==
    \E s \in Slots :
        /\ last.op = "setGroupId" /\ last.ok /\ last.a = s
        /\ patches[s].groupId # Undefined
        /\ patches[s].level[patches[s].groupId] = 3

\* C19 (purge of contracts): P.purge(S) removes P's contract at address a
\* exactly when S holds a contract at a with the same data; every other
\* contract of P is kept as it was, the group levels and the group id of P
\* are kept, and S, when it is another patch, is not changed.
C19_PurgeContracts ==
    [][last'.op = "purge" =>
          LET P == patches[last'.a]
              S == patches[last'.b]
              After == patches'[last'.a]
          IN  /\ \A a \in Addrs :
                     IF a \in DOMAIN P.contracts /\ a \in DOMAIN S.contracts
                        /\ P.contracts[a].data = S.contracts[a].data
                     THEN a \notin DOMAIN After.contracts
                     ELSE SameEntry(After.contracts, P.contracts, a)
              /\ After.level = P.level
              /\ After.groupId = P.groupId
              /\ \A s \in Slots \ {last'.a} : patches'[s] = patches[s]]_vars

\* C19 witness: a purge has removed P's contract at an address where S, a
\* patch of another level for the contract's group, holds one.
C19_Witness ==
    \E p \in Slots, s \in Slots, a \in Addrs :
        /\ last.op = "purge" /\ last.a = p /\ last.b = s /\ last.changed
        /\ p # s
        /\ a \in DOMAIN patches[s].contracts
        /\ a \notin DOMAIN patches[p].contracts
        /\ LevelOf(patches[p], patches[s].contracts[a].groupId)
               # LevelOf(patches[s], patches[s].contracts[a].groupId)

\* C20 (what spendCoins works on and changes): a spendCoins(utxo, i, s) that
\* returns worked on the patch's own UTXO of the hash when it held one,
\* whatever the snapshot, and on a copy of the snapshot otherwise: afterwards
\* i is not live in the patch's UTXO, the other indexes are live with their
\* coins exactly as in the UTXO worked on, (h, i) is recorded as spent by s,
\* and no other patch (the one the snapshot was read from included) is changed.
SpendEffect(s, h, utxo, i, tx) ==
    LET P == patches[s]
        Q == patches'[s]
        W == IF h \in DOMAIN P.coins THEN P.coins[h] ELSE utxo
    IN  /\ i \in DOMAIN W
        /\ h \in DOMAIN Q.coins
        /\ DOMAIN Q.coins[h] = DOMAIN W \ {i}
        /\ \A j \in DOMAIN Q.coins[h] : Q.coins[h][j] = W[j]
        /\ SpentBy(Q, h, i, tx)
        /\ \A q \in Slots \ {s} : patches'[q] = patches[q]
MergeFrame ==
    last'.op = "merge" =>
        /\ \A s \in Slots : (last'.ok /\ s = last'.d) \/ patches'[s] = patches[s]
        /\ ~last'.ok => patches' = patches
WriteFrame ==
    last'.op \in {"spendCoins", "createCoins"} =>
        \A q \in Slots \ {last'.a} : patches'[q] = patches[q]
C21_MergePure == [][MergeFrame /\ WriteFrame]_vars

\* C21 witness: spendCoins has returned on the result of a merge (a patch
\* with levels and no group id) and spent an output that is still live, and
\* not spent, in a bound patch.
C21_Witness ==
    \E s \in Slots, q \in Slots, h \in Hashes, i \in Indexes :
        /\ last.op = "spendCoins" /\ last.ok /\ last.a = s
        /\ patches[s].groupId = Undefined /\ DOMAIN patches[s].level # {}
        /\ q # s /\ patches[q].groupId # Undefined
        /\ IsSpent(patches[s], h, i) /\ h \in DOMAIN patches[s].coins
        /\ Live(patches[q], h, i)
        /\ DOMAIN patches[q].spent = {}

\* C22 (a spent output has its UTXO): in every patch reachable by spendCoins,
\* createCoins, merge and purge, a hash with an entry in the spent outputs
\* has a UTXO (possibly with no live index) in the coins; so when L and R both
\* hold h and share no live index, the patch merge(L, R) returns holds a UTXO
\* for h.
C22_SpentHasUtxo ==
    /\ \A s \in Slots : \A h \in DOMAIN patches[s].spent : h \in DOMAIN patches[s].coins
    /\ \A l \in Slots, r \in Slots :
          ~MergeThrows(patches[l], patches[r]) =>
              \A h \in DOMAIN patches[l].coins \cap DOMAIN patches[r].coins :
                  h \in DOMAIN Merge(patches[l], patches[r]).coins

\* C23 (addPeer keeps a peer that matters): addPeer replaces the peer stored
\* under the key of the address and port only when that peer is not banned,
\* has no temporarily banned address, is disconnected and has no version, and
\* stores the peer given when the key is absent; in every other case it
\* returns a rejection code or the stored peer and leaves the address book as
\* it was.
Protected(existingPeer) ==
    \/ existingPeer.banned
    \/ existingPeer.tempBannedAddress
    \/ ~existingPeer.disconnected
    \/ existingPeer.version # Undefined
AddPeerLaw ==
    added'.op = "addPeer" =>
        LET key == added'.key
        IN  /\ key = added'.peer.address \o PortToString(added'.peer.port)
            /\ IF key \in DOMAIN allPeers /\ Protected(allPeers[key])
               THEN /\ allPeers' = allPeers
                    /\ added'.result \in {"REJECT_BANNED", "REJECT_DUPLICATE",
                                          "REJECT_BANNEDADDRESS", "existingPeer"}
               ELSE /\ added'.result = "peer"
                    /\ DOMAIN allPeers' = DOMAIN allPeers \cup {key}
                    /\ allPeers'[key] = added'.peer
                    /\ \A k \in DOMAIN allPeers \ {key} : allPeers'[k] = allPeers[k]
====
